---- MODULE Spec2Model ----
(***************************************************************************)
(* Model of the 3D portfolio page: the orb-expansion main module           *)
(* (src/src/main.js, first module), the cyberpunk core                     *)
(* (src/src/cyberpunk.js) and the audio manager (src/src/audio.js).        *)
(*                                                                         *)
(* Units.  Time is counted in ticks of 0.3 s, so the 1.2 s camera          *)
(* animation lasts 4 ticks and the 1.5 s energy pulse 5 ticks.  Lengths    *)
(* are fixed point, 1/1000 of a scene unit (the precision the source       *)
(* writes its camera views in).  Light and emissive intensities and        *)
(* opacities are in tenths, gains in hundredths.  The core scale is in     *)
(* 1/ScaleUnit.  performance.now()/1000 and clock.getElapsedTime() are     *)
(* both read from the one clock `now`.                                     *)
(*                                                                         *)
(* three.js itself (OrbitControls.update, rendering, the ray caster) is    *)
(* not part of the repository: the ray cast is an input of each frame      *)
(* (the orb under the pointer) and OrbitControls.update, which runs only   *)
(* while no camera animation is active, is taken to leave the camera in    *)
(* place (no drag input is modelled).                                      *)
(***************************************************************************)
EXTENDS Integers, Sequences, FiniteSets, TLC

\* ------------------------------------------------------------------ bounds
MaxTime == 1
MaxInputs == 2
ScaleUnit == 1
MaxCalls == 4
MaxSoundtracks == 2
ScaleGrid == 50

\* --------------------------------------------------------------- constants
CAMERA_ANIM_DURATION == 4
PULSE_DURATION == 5
POOL_SIZE == 3

NoOrb == "null"
Sections == {"about", "skills", "projects", "experience", "contact"}
\* data-section values of the nav buttons: the five sections and one id
\* that has neither an orb nor an entry in the content data
NavSections == Sections \cup {"unknown"}
ContentSections == {"about", "skills", "projects", "experience", "contact"}

SECTION_COLORS == [s \in Sections |->
    CASE s = "about" -> 65535
      [] s = "skills" -> 16711935
      [] s = "projects" -> 65416
      [] s = "experience" -> 16737792
      [] s = "contact" -> 16776960]
DEFAULT_PULSE_COLOR == 65535

\* ----------------------------------------------------------------- vectors
Abs(x) == IF x < 0 THEN -x ELSE x
Sign(x) == IF x < 0 THEN -1 ELSE IF x > 0 THEN 1 ELSE 0
\* integer division truncating toward zero
Quot(a, b) == Sign(a) * (Abs(a) \div b)
\* integer division rounding to nearest
Round(a, b) == Sign(a) * ((2 * Abs(a) + b) \div (2 * b))

defaultCameraPos == <<0, 2000, 18000>>
defaultLookAt == <<0, 0, 0>>

\* getDistributedPositions(5, 6): the Fibonacci-sphere orb positions
orbPositions == [s \in Sections |->
    CASE s = "about" -> <<3600, 4800, 0>>
      [] s = "skills" -> <<-4055, 2400, -3715>>
      [] s = "projects" -> <<525, 0, 5977>>
      [] s = "experience" -> <<3346, -2400, -4364>>
      [] s = "contact" -> <<-3545, -4800, 627>>]

\* orbWorldPos.clone().normalize().multiplyScalar(22): the direction of an
\* orb does not depend on the (positive) core scale
sideOffset == [s \in Sections |->
    CASE s = "about" -> <<13200, 17600, 0>>
      [] s = "skills" -> <<-14868, 8800, -13620>>
      [] s = "projects" -> <<1923, 0, 21916>>
      [] s = "experience" -> <<12268, -8800, -16002>>
      [] s = "contact" -> <<-12998, -17600, 2299>>]
upOffset == <<0, 8000, 0>>

VecAdd(a, b) == <<a[1] + b[1], a[2] + b[2], a[3] + b[3]>>

\* Object3D.getWorldPosition of an orb: the core sits at the origin,
\* unrotated, scaled by its current scale
GetWorldPosition(s, scale) ==
    [i \in 1..3 |-> Round(orbPositions[s][i] * scale, ScaleUnit)]

\* orbWorldPos.clone().multiplyScalar(0.7)
LookAtPoint(worldPos) == [i \in 1..3 |-> Round(worldPos[i] * 7, 10)]

SECTION_CAMERAS == [s \in {"experience", "about", "skills"} |->
    CASE s = "experience" ->
           [position |-> <<10035, -7462, -1904>>,
            target |-> <<2342, -1680, -3055>>, panelSide |-> "none"]
      [] s = "about" ->
           [position |-> <<5269, 9817, 5901>>,
            target |-> <<3250, 2659, 970>>, panelSide |-> "none"]
      [] s = "skills" ->
           [position |-> <<-7715, 7373, -6582>>,
            target |-> <<-946, 560, -867>>, panelSide |-> "left"]]
HasCustomCamera(s) == s \in DOMAIN SECTION_CAMERAS

\* easeInOutCubic(elapsed / CAMERA_ANIM_DURATION) as a fraction with
\* denominator EaseDenom: with t = e/D, t < 0.5 iff 2e < D,
\* 4t^3 = 4e^3/D^3 and 1 - (-2t+2)^3/2 = (D^3 - 4(D-e)^3)/D^3
EaseDenom == CAMERA_ANIM_DURATION * CAMERA_ANIM_DURATION * CAMERA_ANIM_DURATION
easeInOutCubic(e) ==
    IF 2 * e < CAMERA_ANIM_DURATION
    THEN 4 * e * e * e
    ELSE EaseDenom - 4 * (CAMERA_ANIM_DURATION - e) * (CAMERA_ANIM_DURATION - e)
                       * (CAMERA_ANIM_DURATION - e)

\* mutant: the progress is not clamped to 1
Progress_Unclamped(elapsed) == elapsed

\* Math.min(elapsed / CAMERA_ANIM_DURATION, 1), as elapsed ticks
Progress(elapsed) ==
    IF elapsed < CAMERA_ANIM_DURATION THEN elapsed ELSE CAMERA_ANIM_DURATION

\* Vector3.lerpVectors(v1, v2, alpha) with alpha = num / EaseDenom
lerpVectors(v1, v2, num) ==
    [i \in 1..3 |-> v1[i] + Quot((v2[i] - v1[i]) * num, EaseDenom)]

\* ------------------------------------------------------------------- state
VARIABLES
    now,                 \* the clock, in ticks
    inputs,              \* user inputs so far (bounds the model)
    cameraPosition,      \* camera.position
    controlsTarget,      \* controls.target
    controlsEnabled,     \* controls.enabled
    cameraAnimating,
    cameraStartPos,
    cameraTargetPos,
    cameraStartLookAt,
    cameraTargetLookAt,
    cameraAnimStartTime,
    timers,              \* due times of the pending setTimeout callbacks
    hoveredOrb,
    core,                \* core.userData
    orbs,                \* per orb: sphere material, point light, userData
    pulseRings,          \* per pulse ring: userData
    currentSection,
    panelVisible,
    panelClasses,        \* contentPanel.classList
    audio,               \* the AudioManager and what it created
    sounds,              \* one-shot sounds started by the last handler
    calls,               \* AudioManager methods the last handler invoked
    clickOnceArmed       \* the { once: true } canvas listener is still set

cameraVars == <<cameraPosition, controlsTarget, controlsEnabled, cameraAnimating,
                cameraStartPos, cameraTargetPos, cameraStartLookAt,
                cameraTargetLookAt, cameraAnimStartTime>>
coreVars == <<core, orbs, pulseRings>>
panelVars == <<currentSection, panelVisible, panelClasses>>
vars == <<now, inputs, cameraVars, timers, hoveredOrb, coreVars, panelVars,
          audio, sounds, calls, clickOnceArmed>>

\* ---------------------------------------------------- src/src/cyberpunk.js
Rings == 0..(POOL_SIZE - 1)

\* createCyberpunkCore: group.userData
CreateCoreUserData ==
    [baseScale |-> ScaleUnit, currentScale |-> ScaleUnit, targetScale |-> ScaleUnit,
     isExpanded |-> FALSE, focusedOrb |-> NoOrb,
     ringSpeedMultiplier |-> 1, targetRingSpeed |-> 1]

\* createCyberpunkCore: the pool of pulse rings
CreatePulseRings ==
    [r \in Rings |-> [active |-> FALSE, startTime |-> 0, color |-> DEFAULT_PULSE_COLOR]]

\* createCyberpunkCore: the five orbs (sphere emissive 0.4, material opacity
\* at its default 1, point light 0.8, userData without isFocused)
CreateOrbs ==
    [s \in Sections |-> [emissiveIntensity |-> 4, opacity |-> 10, intensity |-> 8,
                         isFocused |-> "undefined"]]

\* mutant: the highlight flag is ignored, every call highlights
highlightOrb_AlwaysOn(os, orb, highlight) ==
    IF orb = NoOrb THEN os
    ELSE [os EXCEPT ![orb].intensity = 10, ![orb].emissiveIntensity = 13]

\* highlightOrb(orb, highlight); the orbs have no child named 'ring'
highlightOrb(os, orb, highlight) ==
    IF orb = NoOrb THEN os
    ELSE [os EXCEPT ![orb].intensity = IF highlight THEN 10 ELSE 5,
                    ![orb].emissiveIntensity = IF highlight THEN 13 ELSE 9]

\* pulseRings.children.find(r => !r.userData.active)
AvailableRing(rings) ==
    IF \E r \in Rings : ~rings[r].active
    THEN CHOOSE r \in Rings : ~rings[r].active /\ \A q \in Rings : q < r => rings[q].active
    ELSE -1

triggerEnergyPulse(rings, color, time) ==
    LET availableRing == AvailableRing(rings) IN
    IF availableRing = -1 THEN rings
    ELSE [rings EXCEPT ![availableRing] =
              [active |-> TRUE, startTime |-> time, color |-> color]]

\* mutant: skipExpansion is ignored
ExpandCore_AlwaysExpands(c, orb, skipExpansion) ==
    [c EXCEPT !.isExpanded = TRUE,
              !.targetScale = 3 * ScaleUnit,
              !.focusedOrb = orb,
              !.targetRingSpeed = 5]

\* expandToOrb(core, orb, time, skipExpansion) on a valid core and orb; the
\* orbs have no children named 'ring' or 'moon'
ExpandCore(c, orb, skipExpansion) ==
    [c EXCEPT !.isExpanded = TRUE,
              !.targetScale = IF skipExpansion THEN ScaleUnit ELSE 3 * ScaleUnit,
              !.focusedOrb = orb,
              !.targetRingSpeed = IF skipExpansion THEN 1 ELSE 5]

SpotlightOrbs(os, orb) ==
    [s \in Sections |->
        LET isFocused == (s = orb) IN
        [emissiveIntensity |-> IF isFocused THEN 20 ELSE 2,
         opacity |-> IF isFocused THEN 10 ELSE 3,
         intensity |-> IF isFocused THEN 20 ELSE 1,
         isFocused |-> IF isFocused THEN "true" ELSE "false"]]

expandToOrb(c, os, rings, orb, time, skipExpansion) ==
    [core |-> ExpandCore(c, orb, skipExpansion),
     orbs |-> SpotlightOrbs(os, orb),
     pulseRings |-> triggerEnergyPulse(rings, SECTION_COLORS[orb], time),
     worldPos |-> GetWorldPosition(orb, c.currentScale)]

\* collapseCore(core)
CollapseCoreUserData(c) ==
    [c EXCEPT !.isExpanded = FALSE, !.targetScale = ScaleUnit,
              !.focusedOrb = NoOrb, !.targetRingSpeed = 1]

ResetOrbs(os) ==
    [s \in Sections |-> [emissiveIntensity |-> 9, opacity |-> 10, intensity |-> 5,
                         isFocused |-> "false"]]

\* mutant: the factor is 1.06 instead of 0.06
ScaleStep_Overshoots(currentScale, targetScale) ==
    LET diff == targetScale - currentScale IN
    currentScale + Sign(diff) * ((Abs(diff) * 106 + 99) \div 100)

\* animateCyberpunkCore: the scale step, 6% of the remaining difference,
\* at least one unit of the fixed-point resolution while they differ
ScaleStep(currentScale, targetScale) ==
    LET diff == targetScale - currentScale IN
    currentScale + Sign(diff) * ((Abs(diff) * 6 + 99) \div 100)

AnimateScale(c) ==
    [c EXCEPT !.currentScale = ScaleStep(c.currentScale, c.targetScale)]

\* animateCyberpunkCore: a pulse ring whose progress reached 1 is reset
AnimatePulseRings(rings, time) ==
    [r \in Rings |->
        IF rings[r].active /\ time - rings[r].startTime >= PULSE_DURATION
        THEN [rings[r] EXCEPT !.active = FALSE]
        ELSE rings[r]]

\* -------------------------------------------------------- src/src/audio.js
\* AudioManager constructor; contexts, soundtracks and intervals count what
\* the manager has created: AudioContext objects, soundtrack graphs
\* (bass, pads, LFO) and setInterval sequencers.  masterGain and musicGain
\* are -1 for null and else the gain value; sequencerInterval is 0 for null
AudioManager ==
    [ctx |-> "null", initialized |-> FALSE, masterGain |-> -1, musicGain |-> -1,
     isPlaying |-> FALSE, sequencerInterval |-> 0,
     contexts |-> 0, gains |-> 0, soundtracks |-> 0, intervals |-> 0,
     error |-> FALSE]

\* startSoundtrack()
startSoundtrack(a) ==
    IF ~a.initialized \/ a.isPlaying THEN a
    ELSE IF a.ctx = "null" THEN [a EXCEPT !.isPlaying = TRUE, !.error = TRUE]
    ELSE [a EXCEPT !.isPlaying = TRUE,
                   !.soundtracks = a.soundtracks + 1,
                   !.intervals = a.intervals + 1,
                   !.sequencerInterval = a.intervals + 1]

\* mutant: init without its initialized guard
AudioInit_NoGuard(a) ==
    startSoundtrack([a EXCEPT !.ctx = "AudioContext",
                              !.contexts = a.contexts + 1,
                              !.masterGain = 35,
                              !.musicGain = 20,
                              !.gains = a.gains + 2,
                              !.initialized = TRUE])

\* init()
AudioInit(a) ==
    IF a.initialized THEN a
    ELSE startSoundtrack([a EXCEPT !.ctx = "AudioContext",
                                   !.contexts = a.contexts + 1,
                                   !.masterGain = 35,
                                   !.musicGain = 20,
                                   !.gains = a.gains + 2,
                                   !.initialized = TRUE])

\* the body of a one-shot sound: this.ctx.createOscillator() ... osc.start();
\* dereferencing a null ctx throws
OneShot(a, name) ==
    IF a.ctx = "null" \/ a.masterGain = -1
    THEN [audio |-> [a EXCEPT !.error = TRUE], sounds |-> <<>>]
    ELSE [audio |-> a, sounds |-> <<name>>]

playClick(a) ==
    IF ~a.initialized THEN [audio |-> a, sounds |-> <<>>] ELSE OneShot(a, "click")

\* mutant: playHover without its initialized guard
playHover_NoGuard(a) == OneShot(a, "hover")

playHover(a) ==
    IF ~a.initialized THEN [audio |-> a, sounds |-> <<>>] ELSE OneShot(a, "hover")

playTransition(a) ==
    IF ~a.initialized THEN [audio |-> a, sounds |-> <<>>] ELSE OneShot(a, "transition")

\* a handler's use of the audio manager: the manager, the sounds started
\* and the methods invoked so far
NoCalls(a) == [audio |-> a, sounds |-> <<>>, calls |-> <<>>]

Invoke(r, method) ==
    LET x == CASE method = "playClick" -> playClick(r.audio)
               [] method = "playHover" -> playHover(r.audio)
               [] method = "playTransition" -> playTransition(r.audio)
               [] method = "init" -> [audio |-> AudioInit(r.audio), sounds |-> <<>>]
    IN [audio |-> x.audio, sounds |-> r.sounds \o x.sounds,
        calls |-> Append(r.calls, method)]

AudioResult(r) ==
    /\ audio' = r.audio
    /\ sounds' = r.sounds
    /\ calls' = r.calls

Silent ==
    /\ sounds' = <<>>
    /\ calls' = <<>>

\* setVolume(value)
setVolume(a, value) ==
    IF a.masterGain # -1 THEN [a EXCEPT !.masterGain = value] ELSE a

\* stop()
stop(a) ==
    [a EXCEPT !.sequencerInterval = 0, !.isPlaying = FALSE]

\* --------------------------------------------------------- src/src/main.js
\* the orbs the pointer is moved over
PointerOrbs == {"about", "projects"}

Init ==
    /\ now = 0
    /\ inputs = 0
    /\ cameraPosition = defaultCameraPos
    /\ controlsTarget = defaultLookAt
    /\ controlsEnabled = TRUE
    /\ cameraAnimating = FALSE
    /\ cameraStartPos = defaultCameraPos
    /\ cameraTargetPos = defaultCameraPos
    /\ cameraStartLookAt = defaultLookAt
    /\ cameraTargetLookAt = defaultLookAt
    /\ cameraAnimStartTime = 0
    /\ timers = {}
    /\ hoveredOrb = NoOrb
    /\ core = CreateCoreUserData
    /\ orbs = CreateOrbs
    /\ pulseRings = CreatePulseRings
    /\ currentSection = "null"
    /\ panelVisible = FALSE
    /\ panelClasses = {}
    /\ audio = AudioManager
    /\ sounds = <<>>
    /\ calls = <<>>
    /\ clickOnceArmed = TRUE

\* animateCameraToOrb(orbWorldPos, sectionId); orbWorldPos is never null
\* here, expandToOrb having been given a core and an orb
CameraTargetForOrb(orbWorldPos, sectionId) ==
    IF HasCustomCamera(sectionId)
    THEN [pos |-> SECTION_CAMERAS[sectionId].position,
          lookAt |-> SECTION_CAMERAS[sectionId].target]
    ELSE [pos |-> VecAdd(sideOffset[sectionId], upOffset),
          lookAt |-> LookAtPoint(orbWorldPos)]

animateCameraToOrb(orbWorldPos, sectionId) ==
    LET t == CameraTargetForOrb(orbWorldPos, sectionId) IN
    /\ cameraStartPos' = cameraPosition
    /\ cameraStartLookAt' = controlsTarget
    /\ cameraTargetPos' = t.pos
    /\ cameraTargetLookAt' = t.lookAt
    /\ cameraAnimating' = TRUE
    /\ cameraAnimStartTime' = now
    /\ controlsEnabled' = FALSE
    /\ UNCHANGED <<cameraPosition, controlsTarget, timers>>

\* mutant: the animation is restarted without retargeting it to the default
animateCameraToDefault_KeepsTarget ==
    /\ cameraStartPos' = cameraPosition
    /\ cameraStartLookAt' = controlsTarget
    /\ cameraAnimating' = TRUE
    /\ cameraAnimStartTime' = now
    /\ timers' = timers \cup {now + CAMERA_ANIM_DURATION}
    /\ UNCHANGED <<cameraPosition, controlsTarget, controlsEnabled, cameraTargetPos,
                   cameraTargetLookAt>>

\* animateCameraToDefault()
animateCameraToDefault ==
    /\ cameraStartPos' = cameraPosition
    /\ cameraStartLookAt' = controlsTarget
    /\ cameraTargetPos' = defaultCameraPos
    /\ cameraTargetLookAt' = defaultLookAt
    /\ cameraAnimating' = TRUE
    /\ cameraAnimStartTime' = now
    /\ timers' = timers \cup {now + CAMERA_ANIM_DURATION}
    /\ UNCHANGED <<cameraPosition, controlsTarget, controlsEnabled>>

\* updateCameraAnimation()
updateCameraAnimation ==
    IF ~cameraAnimating THEN UNCHANGED cameraVars
    ELSE LET elapsed == now - cameraAnimStartTime
             progress == Progress(elapsed)
             easedProgress == easeInOutCubic(progress)
             currentLookAt == lerpVectors(cameraStartLookAt, cameraTargetLookAt,
                                          easedProgress)
         IN /\ cameraPosition' = lerpVectors(cameraStartPos, cameraTargetPos,
                                             easedProgress)
            /\ controlsTarget' = currentLookAt
            /\ IF progress >= CAMERA_ANIM_DURATION
               THEN cameraAnimating' = FALSE /\ controlsEnabled' = TRUE
               ELSE UNCHANGED <<cameraAnimating, controlsEnabled>>
            /\ UNCHANGED <<cameraStartPos, cameraTargetPos, cameraStartLookAt,
                           cameraTargetLookAt, cameraAnimStartTime>>

\* showSection(sectionId) and the audio.playClick() that follows it in both
\* handlers, r being the handler's use of the audio manager so far
PanelSide(sectionId) ==
    IF HasCustomCamera(sectionId) /\ SECTION_CAMERAS[sectionId].panelSide # "none"
    THEN SECTION_CAMERAS[sectionId].panelSide
    ELSE "right"

\* mutant: the previous side class is not removed
PanelClassesFor_KeepsOldSide(classes, sectionId) ==
    (classes \cup {IF PanelSide(sectionId) = "left" THEN "panel-left" ELSE "panel-right"})
        \cup {"visible"}

PanelClassesFor(classes, sectionId) ==
    ((classes \ {"panel-left", "panel-right"})
        \cup {IF PanelSide(sectionId) = "left" THEN "panel-left" ELSE "panel-right"})
        \cup {"visible"}

showSection(sectionId, r) ==
    IF sectionId \notin ContentSections
    THEN /\ UNCHANGED panelVars
         /\ AudioResult(Invoke(r, "playClick"))
    ELSE /\ currentSection' = sectionId
         /\ panelVisible' = TRUE
         /\ panelClasses' = PanelClassesFor(panelClasses, sectionId)
         /\ AudioResult(Invoke(Invoke(r, "playTransition"), "playClick"))

\* the body shared by the orb click and the nav button: expandToOrb,
\* animateCameraToOrb, showSection, audio.playClick
FocusSection(sectionId, r) ==
    LET skipExpansion == HasCustomCamera(sectionId)
        e == expandToOrb(core, orbs, pulseRings, sectionId, now, skipExpansion)
    IN /\ core' = e.core
       /\ orbs' = e.orbs
       /\ pulseRings' = e.pulseRings
       /\ animateCameraToOrb(e.worldPos, sectionId)
       /\ showSection(sectionId, r)

InputAllowed == inputs < MaxInputs /\ now <= MaxTime

\* a click on the canvas: the once-only audio listener, then the orb listener
CanvasClick ==
    /\ InputAllowed
    /\ inputs' = inputs + 1
    /\ clickOnceArmed' = FALSE
    /\ LET r == IF clickOnceArmed THEN Invoke(NoCalls(audio), "init")
                 ELSE NoCalls(audio) IN
       IF hoveredOrb # NoOrb
       THEN FocusSection(hoveredOrb, r)
       ELSE /\ AudioResult(r)
            /\ UNCHANGED <<cameraVars, timers, coreVars, panelVars>>
    /\ UNCHANGED <<now, hoveredOrb>>

\* a click on a nav button
NavClick(sectionId) ==
    /\ InputAllowed
    /\ inputs' = inputs + 1
    /\ IF sectionId \in Sections
       THEN FocusSection(sectionId, NoCalls(audio))
       ELSE /\ showSection(sectionId, NoCalls(audio))
            /\ UNCHANGED <<cameraVars, timers, coreVars>>
    /\ UNCHANGED <<now, hoveredOrb, clickOnceArmed>>

\* hidePanel(), the close button's handler
hidePanel ==
    /\ InputAllowed
    /\ inputs' = inputs + 1
    /\ panelVisible' = FALSE
    /\ currentSection' = "null"
    /\ panelClasses' = panelClasses \ {"visible"}
    /\ core' = CollapseCoreUserData(core)
    /\ orbs' = ResetOrbs(orbs)
    /\ animateCameraToDefault
    /\ Silent
    /\ UNCHANGED <<now, hoveredOrb, pulseRings, audio, clickOnceArmed>>

\* updateRaycast(), target being the orb under the pointer (or none)
updateRaycast(target) ==
    IF target # NoOrb
    THEN IF target # hoveredOrb
         THEN /\ hoveredOrb' = target
              /\ orbs' = highlightOrb(highlightOrb(orbs, hoveredOrb, FALSE), target, TRUE)
              /\ AudioResult(Invoke(NoCalls(audio), "playHover"))
         ELSE /\ UNCHANGED <<hoveredOrb, orbs, audio>>
              /\ Silent
    ELSE /\ hoveredOrb' = NoOrb
         /\ orbs' = highlightOrb(orbs, hoveredOrb, FALSE)
         /\ Silent
         /\ UNCHANGED audio

\* animate(): one animation frame; the orb under the pointer changes only
\* when the user moves the pointer, which counts as an input
Frame(target) ==
    /\ target = hoveredOrb \/ InputAllowed
    /\ inputs' = IF target = hoveredOrb THEN inputs ELSE inputs + 1
    /\ updateCameraAnimation
    /\ updateRaycast(target)
    /\ core' = AnimateScale(core)
    /\ pulseRings' = AnimatePulseRings(pulseRings, now)
    /\ UNCHANGED <<now, timers, panelVars, clickOnceArmed>>

\* the setTimeout callback of animateCameraToDefault
TimerFire(due) ==
    /\ due <= now
    /\ timers' = timers \ {due}
    /\ controlsEnabled' = TRUE
    /\ Silent
    /\ UNCHANGED <<now, inputs, cameraPosition, controlsTarget, cameraAnimating,
                   cameraStartPos, cameraTargetPos, cameraStartLookAt,
                   cameraTargetLookAt, cameraAnimStartTime, hoveredOrb, coreVars,
                   panelVars, audio, clickOnceArmed>>

\* time passes
Tick ==
    /\ now < MaxTime + CAMERA_ANIM_DURATION
    /\ now' = now + 1
    /\ Silent
    /\ UNCHANGED <<inputs, cameraVars, timers, hoveredOrb, coreVars, panelVars,
                   audio, clickOnceArmed>>

Next ==
    \/ CanvasClick
    \/ \E sectionId \in NavSections : NavClick(sectionId)
    \/ hidePanel
    \/ \E target \in PointerOrbs \cup {NoOrb} : Frame(target)
    \/ \E due \in timers : TimerFire(due)
    \/ Tick

Spec == Init /\ [][Next]_vars

\* the same program with the user's choices drawn from smaller sets, and the
\* page's animation loop and clock kept running
FairSections == {"about", "projects"}
FairPointerOrbs == {"projects"}

FairNext ==
    \/ CanvasClick
    \/ \E sectionId \in FairSections : NavClick(sectionId)
    \/ hidePanel
    \/ \E target \in FairPointerOrbs \cup {NoOrb} : Frame(target)
    \/ \E due \in timers : TimerFire(due)
    \/ Tick

FairSpec ==
    /\ Init
    /\ [][FairNext]_vars
    /\ WF_vars(Tick)
    /\ WF_vars(\E target \in FairPointerOrbs \cup {NoOrb} : Frame(target))

\* ------------------------------------------- the core's exported functions
\* SpecCore drives src/src/cyberpunk.js through its exports alone, on the
\* core createCyberpunkCore returns; inputs counts the calls
CallOrbs == {"about", "projects"}
otherVars == <<cameraVars, timers, hoveredOrb, panelVars, audio, sounds, calls,
               clickOnceArmed>>

ExpandToOrbCall(orb, skipExpansion) ==
    /\ inputs < MaxCalls
    /\ inputs' = inputs + 1
    /\ LET e == expandToOrb(core, orbs, pulseRings, orb, now, skipExpansion) IN
       /\ core' = e.core
       /\ orbs' = e.orbs
       /\ pulseRings' = e.pulseRings
    /\ UNCHANGED <<now, otherVars>>

CollapseCoreCall ==
    /\ inputs < MaxCalls
    /\ inputs' = inputs + 1
    /\ core' = CollapseCoreUserData(core)
    /\ orbs' = ResetOrbs(orbs)
    /\ UNCHANGED <<now, pulseRings, otherVars>>

HighlightOrbCall(orb, highlight) ==
    /\ inputs < MaxCalls
    /\ inputs' = inputs + 1
    /\ orbs' = highlightOrb(orbs, orb, highlight)
    /\ UNCHANGED <<now, core, pulseRings, otherVars>>

AnimateCyberpunkCoreCall ==
    /\ core' = AnimateScale(core)
    /\ pulseRings' = AnimatePulseRings(pulseRings, now)
    /\ UNCHANGED <<now, inputs, orbs, otherVars>>

CoreTick ==
    /\ now < MaxTime + CAMERA_ANIM_DURATION
    /\ now' = now + 1
    /\ UNCHANGED <<inputs, coreVars, otherVars>>

CoreNext ==
    \/ \E orb \in CallOrbs, skipExpansion \in BOOLEAN : ExpandToOrbCall(orb, skipExpansion)
    \/ CollapseCoreCall
    \/ \E orb \in CallOrbs, highlight \in BOOLEAN : HighlightOrbCall(orb, highlight)
    \/ AnimateCyberpunkCoreCall
    \/ CoreTick

SpecCore == Init /\ [][CoreNext]_vars

\* ------------------------------------------ the audio manager's own methods
\* SpecAudio drives the AudioManager through its public methods, together
\* with the canvas click that initialises it
Volumes == {0, 35, 100}
nonAudioVars == <<now, inputs, cameraVars, timers, hoveredOrb, coreVars, panelVars,
                  clickOnceArmed>>

InitCall ==
    /\ AudioResult(Invoke(NoCalls(audio), "init"))
    /\ UNCHANGED nonAudioVars

StartSoundtrackCall ==
    /\ audio.soundtracks < MaxSoundtracks
    /\ audio' = startSoundtrack(audio)
    /\ sounds' = <<>>
    /\ calls' = <<"startSoundtrack">>
    /\ UNCHANGED nonAudioVars

PlayClickCall ==
    /\ AudioResult(Invoke(NoCalls(audio), "playClick"))
    /\ UNCHANGED nonAudioVars

PlayHoverCall ==
    /\ AudioResult(Invoke(NoCalls(audio), "playHover"))
    /\ UNCHANGED nonAudioVars

PlayTransitionCall ==
    /\ AudioResult(Invoke(NoCalls(audio), "playTransition"))
    /\ UNCHANGED nonAudioVars

SetVolumeCall(value) ==
    /\ audio' = setVolume(audio, value)
    /\ sounds' = <<>>
    /\ calls' = <<"setVolume">>
    /\ UNCHANGED nonAudioVars

StopCall ==
    /\ audio' = stop(audio)
    /\ sounds' = <<>>
    /\ calls' = <<"stop">>
    /\ UNCHANGED nonAudioVars

AudioNext ==
    \/ CanvasClick
    \/ InitCall
    \/ StartSoundtrackCall
    \/ PlayClickCall
    \/ PlayHoverCall
    \/ PlayTransitionCall
    \/ \E value \in Volumes : SetVolumeCall(value)
    \/ StopCall

SpecAudio == Init /\ [][AudioNext]_vars

\* ================================================================== claims
FrameStep == \E target \in PointerOrbs \cup {NoOrb} : Frame(target)

\* p is a point lerpVectors can produce between a and b
OnSegment(p, a, b) ==
    \E n \in 0..EaseDenom :
        \A i \in 1..3 : p[i] = a[i] + Quot((b[i] - a[i]) * n, EaseDenom)

\* the orb of section s is clicked, or the nav button of s is pressed
SectionActivated(s) == NavClick(s) \/ (hoveredOrb = s /\ CanvasClick)

ReturningToDefault == cameraAnimating /\ cameraTargetPos = defaultCameraPos
AtDefault ==
    /\ ~cameraAnimating
    /\ cameraPosition = defaultCameraPos
    /\ controlsTarget = defaultLookAt

C4_ControlsDisabledDuringOrbAnimation ==
    (/\ cameraAnimating
     /\ cameraTargetPos # defaultCameraPos
     /\ now - cameraAnimStartTime < CAMERA_ANIM_DURATION)
        => ~controlsEnabled

\* C5: while an orb is focused (from expandToOrb to the next collapseCore
\* or expandToOrb) that orb is focused and bright and every other orb is
\* dimmed.
C5_SpotlightPersists ==
    core.focusedOrb # NoOrb =>
        \A s \in Sections :
            IF s = core.focusedOrb
            THEN /\ orbs[s].isFocused = "true"
                 /\ orbs[s].emissiveIntensity = 20
                 /\ orbs[s].intensity = 20
            ELSE /\ orbs[s].isFocused = "false"
                 /\ orbs[s].emissiveIntensity = 2
                 /\ orbs[s].intensity = 1

\* C6: on a freshly created core, expandToOrb followed by collapseCore
\* leaves every orb's sphere emissive intensity, sphere opacity and light
\* intensity at the values createCyberpunkCore gave them.
C6_CollapseRestoresCreatedValues ==
    [][(inputs = 1 /\ core.isExpanded /\ CollapseCoreCall) =>
         \A s \in Sections :
            /\ orbs'[s].emissiveIntensity = CreateOrbs[s].emissiveIntensity
            /\ orbs'[s].opacity = CreateOrbs[s].opacity
            /\ orbs'[s].intensity = CreateOrbs[s].intensity]_vars

\* C7: after every call of expandToOrb some pulse ring is active with
\* startTime the time of the call and the colour of the orb's section.
C7_EveryExpandTriggersPulse ==
    [][\A orb \in CallOrbs, skipExpansion \in BOOLEAN :
         ExpandToOrbCall(orb, skipExpansion) =>
           \E r \in Rings : /\ pulseRings'[r].active
                            /\ pulseRings'[r].startTime = now
                            /\ pulseRings'[r].color = SECTION_COLORS[orb]]_vars

\* C8: after an orb click or nav-button press for a section of the content
\* data the panel is visible, currentSection is that section and the panel
\* carries exactly one of panel-left / panel-right: panel-left exactly when
\* the section's SECTION_CAMERAS entry has panelSide 'left'.
C8_PanelShowsSection ==
    [][\A s \in ContentSections :
         SectionActivated(s) =>
           /\ panelVisible'
           /\ "visible" \in panelClasses'
           /\ currentSection' = s
           /\ Cardinality(panelClasses' \cap {"panel-left", "panel-right"}) = 1
           /\ ("panel-left" \in panelClasses') <=> (s = "skills")]_vars

\* the about panel (right) has directly replaced the skills panel (left):
\* the pulse of the skills orb is still in the first ring
C8_Witness ==
    /\ panelVisible
    /\ currentSection = "about"
    /\ panelClasses = {"panel-right", "visible"}
    /\ pulseRings[0].active
    /\ pulseRings[0].color = SECTION_COLORS["skills"]

\* C9: audio is initialised at most once: once the first canvas click has
\* happened init has run, only one AudioContext and one master and one
\* music gain are ever created, and init on an initialised manager changes
\* nothing (no second soundtrack, no second sequencer).
C9_InitAtMostOnce ==
    /\ audio.contexts <= 1
    /\ audio.gains <= 2
    /\ audio.initialized <=> audio.contexts = 1
    /\ ~clickOnceArmed => audio.initialized
    /\ audio.initialized => AudioInit(audio) = audio

\* init was called on a manager that was initialised and then stopped
C9_Witness ==
    /\ audio.initialized
    /\ ~audio.isPlaying
    /\ calls = <<"init">>
    /\ audio.contexts = 1
    /\ audio.soundtracks = 1

\* C10: as long as init has not run, whatever methods have been called the
\* manager is as constructed, no sound was started and nothing was thrown.
C10_NoOpBeforeInit ==
    ~audio.initialized =>
        /\ audio = AudioManager
        /\ sounds = <<>>

\* stop was called before init
C10_Witness ==
    /\ ~audio.initialized
    /\ calls = <<"stop">>
    /\ audio = AudioManager

\* what one frame does to the hover state when the orb under the pointer is
\* target; soundAlways says whether the hover sound is expected even while
\* the audio manager is not initialised
Highlighted(o) == o.intensity = 10 /\ o.emissiveIntensity = 13
Unhighlighted(o) == o.intensity = 5 /\ o.emissiveIntensity = 9
HoverFrameEffect(target, soundAlways) ==
    IF target = hoveredOrb
    THEN /\ hoveredOrb' = hoveredOrb
         /\ orbs' = orbs
         /\ calls' = <<>>
         /\ sounds' = <<>>
    ELSE /\ hoveredOrb' = target
         /\ hoveredOrb # NoOrb => Unhighlighted(orbs'[hoveredOrb])
         /\ target # NoOrb => Highlighted(orbs'[target])
         /\ \A s \in Sections \ {hoveredOrb, target} : orbs'[s] = orbs[s]
         /\ \A s \in Sections : /\ orbs'[s].opacity = orbs[s].opacity
                                /\ orbs'[s].isFocused = orbs[s].isFocused
         /\ IF target = NoOrb
            THEN calls' = <<>> /\ sounds' = <<>>
            ELSE /\ calls' = <<"playHover">>
                 /\ sounds' = IF soundAlways \/ audio.initialized
                              THEN <<"hover">> ELSE <<>>

\* C11 as claimed: a frame on which the orb under the pointer has changed
\* un-highlights the old orb, highlights the new one, sets hoveredOrb and
\* plays the hover sound exactly once; a frame on which it is unchanged
\* changes no highlight and plays nothing; a frame on which the pointer has
\* left all orbs un-highlights the hovered orb and sets hoveredOrb to null.
C11_HoverChangePlaysSound ==
    [][\A target \in PointerOrbs \cup {NoOrb} :
         Frame(target) => HoverFrameEffect(target, TRUE)]_vars

\* C11 amended: as above, but the frame calls audio.playHover exactly once,
\* and the hover sound is played only if the audio manager is initialised.
C11_HoverChangeCallsPlayHover ==
    [][\A target \in PointerOrbs \cup {NoOrb} :
         Frame(target) => HoverFrameEffect(target, FALSE)]_vars

\* the pointer has moved onto an orb after the audio was initialised
C11_Witness ==
    /\ audio.initialized
    /\ hoveredOrb = "about"
    /\ Highlighted(orbs["about"])
    /\ calls = <<"playHover">>
    /\ sounds = <<"hover">>

\* newScale lies between currentScale and targetScale and differs from
\* currentScale by 6% of the remaining difference, to within one unit of
\* the fixed-point resolution
SixPercentStep(currentScale, targetScale, newScale) ==
    /\ currentScale <= targetScale =>
         (currentScale <= newScale /\ newScale <= targetScale)
    /\ currentScale >= targetScale =>
         (targetScale <= newScale /\ newScale <= currentScale)
    /\ Abs(100 * (newScale - currentScale) - 6 * (targetScale - currentScale)) < 100

\* C12: the scale step, for every scale of a grid of ScaleGrid points per
\* unit in [1, 3] and both targets, moves the scale toward the target by 6%
\* of the remaining difference and never past it; under any sequence of
\* expandToOrb calls, collapseCore calls and frames the core's scale stays
\* within [1, 3], each frame makes that step, and while targetScale does
\* not change the distance to it never increases.
C12_ScaleStaysInRangeAndApproaches ==
    /\ \A c \in ScaleGrid..(3 * ScaleGrid), t \in {ScaleGrid, 3 * ScaleGrid} :
         SixPercentStep(c, t, ScaleStep(c, t))
    /\ [](/\ ScaleUnit <= core.currentScale
          /\ core.currentScale <= 3 * ScaleUnit
          /\ core.targetScale \in {ScaleUnit, 3 * ScaleUnit})
    /\ [][AnimateCyberpunkCoreCall =>
            SixPercentStep(core.currentScale, core.targetScale,
                           core'.currentScale)]_vars
    /\ [][core'.targetScale = core.targetScale =>
            Abs(core.targetScale - core'.currentScale)
              <= Abs(core.targetScale - core.currentScale)]_vars

\* the core was collapsed while part-way expanded
C12_Witness ==
    /\ ~core.isExpanded
    /\ core.targetScale = ScaleUnit
    /\ core.currentScale > ScaleUnit
    /\ core.currentScale < 3 * ScaleUnit

====
